---- MODULE Spec2Model ----
(***************************************************************************)
(* Model of the x69 configurable assembler: the pattern compiler           *)
(* (config.rs, create_assembler_from_config) that builds one merged DFA    *)
(* per mnemonic, and the encoder (parser.rs, Assembler::assemble) that     *)
(* walks that DFA over each source line and evaluates the codegen.         *)
(*                                                                         *)
(* Indices (states, capture slots, line numbers) keep the 0-based values   *)
(* of the Rust code; a TLA+ sequence is indexed with value + 1.            *)
(***************************************************************************)
EXTENDS Integers, Sequences, FiniteSets, TLC

\* ------------------------------------------------------------------ bounds
MaxConfigLines == 2
MaxSourceLines == 2

\* ------------------------------------------------------------------ tokens
\* A lexeme: the token kind, its numeric payload and, for an identifier, its text.
Lexeme(t, v, s) == [t |-> t, v |-> v, s |-> s]
TokenIdent(s) == Lexeme("Ident", 0, s)
TokenRegister(r) == Lexeme("Register", r, "")
TokenImmediate(im) == Lexeme("Immediate", im, "")
TokenInteger(int) == Lexeme("Integer", int, "")
TokenComma == Lexeme("Comma", 0, "")
TokenColon == Lexeme("Colon", 0, "")
TokenArrow == Lexeme("Arrow", 0, "")
TokenOr == Lexeme("Or", 0, "")
TokenOpenBracket == Lexeme("OpenBracket", 0, "")
TokenCloseBracket == Lexeme("CloseBracket", 0, "")

\* str::to_lowercase on the identifiers the inputs use.
to_lowercase(s) ==
    CASE s = "ADD" -> "add"
      [] s = "Add" -> "add"
      [] s = "LDI" -> "ldi"
      [] OTHER -> s

\* --------------------------------------------------------- encoding model
CodegenDataByte(b) == [tag |-> "Byte", b |-> b]
CodegenDataImmediate(imm, b) == [tag |-> "Immediate", imm |-> imm, b |-> b]
CodegenDataRegister(r) == [tag |-> "Register", r |-> r]

CodegenData(data) == [kind |-> "Data", data |-> data]
CodegenUpperLower(upper, lower) == [kind |-> "UpperLower", upper |-> upper, lower |-> lower]
CodegenByte(b) == CodegenData(CodegenDataByte(b))
CodegenImmediate(imm, b) == CodegenData(CodegenDataImmediate(imm, b))
CodegenRegister(r) == CodegenData(CodegenDataRegister(r))

Reject == [tag |-> "Reject"]
NextState(n) == [tag |-> "NextState", next |-> n]

None == [some |-> FALSE]
Some(v) == [some |-> TRUE, val |-> v]

TransitionTableDefault ==
    [register |-> Reject, immediate |-> Reject, comma |-> Reject, accept_codegen |-> None]

InstructionNew == [syntaxes |-> <<>>, states |-> <<TransitionTableDefault>>]

\* ------------------------------------------------------------ diagnostics
\* A log entry; origin is the 0-based line, NoOrigin when the logger has none.
NoOrigin == -1
Log(level, origin, message) == [level |-> level, origin |-> origin, message |-> message]

LoggerNew(origin) == [origin |-> origin, logs |-> <<>>]
log_warning(logger, message) ==
    [logger EXCEPT !.logs = Append(@, Log("Warning", logger.origin, message))]
log_error(logger, message) ==
    [logger EXCEPT !.logs = Append(@, Log("Error", logger.origin, message))]

LogIsError(log) == log.level = "Error"
is_error(logs) == \E k \in 1..Len(logs) : LogIsError(logs[k])

\* Logger::into_result: the value only when no error was logged; the logs always.
into_result(logger, value) ==
    [result |-> IF is_error(logger.logs) THEN None ELSE Some(value), logs |-> logger.logs]
into_none(logger) == [result |-> None, logs |-> logger.logs]

\* Mutant of map_origin: every log takes the origin, whatever it had.
map_origin_all(logs, origin) ==
    [k \in 1..Len(logs) |-> [logs[k] EXCEPT !.origin = origin]]

\* LoggedResult::map_origin: back-fill the origin of the logs that have none.
map_origin(logs, origin) ==
    [k \in 1..Len(logs) |->
        IF logs[k].origin = NoOrigin THEN [logs[k] EXCEPT !.origin = origin] ELSE logs[k]]

\* ------------------------------------------------- config.rs: bracket groups
\* A lexer over one line: the line's tokens and the position of the next one.
LexerNew(source) == [toks |-> source, pos |-> 1]
LexerAtEnd(lexer) == lexer.pos > Len(lexer.toks)
LexerPeek(lexer) == lexer.toks[lexer.pos]
LexerAdvance(lexer) == [lexer EXCEPT !.pos = @ + 1]

\* match_codegen_data_after!: one nibble operand of a bracket group, the upper
\* one after '[' and the lower one after '|'.  b is the bracket parse so far:
\* the lexer, the local logger, upper and lower, and whether the function has
\* returned early.
BracketData(b, after, data) ==
    IF after = "[" THEN [b EXCEPT !.upper = data] ELSE [b EXCEPT !.lower = data]
match_codegen_data_after(b, after, name, registers, immediates) ==
    IF b.returned THEN b
    ELSE IF LexerAtEnd(b.lexer)
    THEN [b EXCEPT !.logger = log_error(@, "expected a literal or register after"),
                   !.returned = TRUE]
    ELSE CASE LexerPeek(b.lexer).t = "Integer" ->
                BracketData([b EXCEPT !.lexer = LexerAdvance(@),
                                      !.logger = IF LexerPeek(b.lexer).v > 15
                                                 THEN log_warning(@, "is larger than 4 bits and will be truncated")
                                                 ELSE @],
                            after, CodegenDataByte(LexerPeek(b.lexer).v % 16))
           [] LexerPeek(b.lexer).t = "Immediate" ->
                IF LexerPeek(b.lexer).v >= Len(immediates)
                THEN [b EXCEPT !.lexer = LexerAdvance(@),
                               !.logger = log_error(@, "uses immediate which is not given in the instruction pattern"),
                               !.returned = TRUE]
                ELSE IF immediates[LexerPeek(b.lexer).v + 1][2] # 4
                THEN [b EXCEPT !.lexer = LexerAdvance(@),
                               !.logger = log_error(@, "width of immediate in bracket group must be 4 (for now)"),
                               !.returned = TRUE]
                ELSE BracketData([b EXCEPT !.lexer = LexerAdvance(@)], after,
                                 CodegenDataImmediate(immediates[LexerPeek(b.lexer).v + 1][1],
                                                      immediates[LexerPeek(b.lexer).v + 1][2]))
           [] LexerPeek(b.lexer).t = "Register" ->
                BracketData([b EXCEPT !.lexer = LexerAdvance(@),
                                      !.logger = IF LexerPeek(b.lexer).v >= registers
                                                 THEN log_error(@, "uses register which is not given in the instruction pattern")
                                                 ELSE @],
                            after, CodegenDataRegister(LexerPeek(b.lexer).v))
           [] OTHER ->
                [b EXCEPT !.lexer = LexerAdvance(@),
                          !.logger = log_error(@, "expected a literal or register after, but got"),
                          !.returned = TRUE]

\* match_symbol!: the '|' or ']' of a bracket group.
match_symbol(b, token_kind) ==
    IF b.returned THEN b
    ELSE IF LexerAtEnd(b.lexer)
    THEN [b EXCEPT !.logger = log_error(@, "expected symbol in bracket group"), !.returned = TRUE]
    ELSE IF LexerPeek(b.lexer).t = token_kind
         THEN [b EXCEPT !.lexer = LexerAdvance(@)]
         ELSE [b EXCEPT !.lexer = LexerAdvance(@),
                        !.logger = log_error(@, "expected symbol in bracket group, but got"),
                        !.returned = TRUE]

\* The value codegen_brackets returns, and the lexer it leaves to its caller.
BracketsReturn(b) ==
    [lexer |-> b.lexer,
     result |-> IF b.returned THEN into_none(b.logger)
                ELSE into_result(b.logger, CodegenUpperLower(b.upper, b.lower))]

\* codegen_brackets: parses `<nibble> | <nibble> ]`.
codegen_brackets(lexer, name, registers, immediates) ==
    BracketsReturn(
        match_symbol(
            match_codegen_data_after(
                match_symbol(
                    match_codegen_data_after(
                        [lexer |-> lexer, logger |-> LoggerNew(NoOrigin), returned |-> FALSE,
                         upper |-> CodegenDataByte(0), lower |-> CodegenDataByte(0)],
                        "[", name, registers, immediates),
                    "Or"),
                "|", name, registers, immediates),
            "CloseBracket"))

\* LoggedResult::if_ok: the logs join the caller's logger, taking its origin
\* where they have none; the value, when there is one, is passed on.
if_ok(logged, logger) ==
    [logger EXCEPT !.logs = @ \o map_origin(logged.logs, logger.origin)]

\* ------------------------------------------- config.rs: the pattern compiler
\* Mutant of AdvanceImmediate: the transition built leads back to the state
\* it leaves, and no state is allocated.
AdvanceImmediateSelfLoop(states, current_state) ==
    IF states[current_state + 1].immediate.tag = "NextState"
    THEN [states |-> states, current_state |-> states[current_state + 1].immediate.next]
    ELSE [states |-> [states EXCEPT ![current_state + 1].immediate = NextState(current_state)],
          current_state |-> current_state]

\* Walk the immediate transition of the current state, or build it.
AdvanceImmediate(states, current_state) ==
    IF states[current_state + 1].immediate.tag = "NextState"
    THEN [states |-> states, current_state |-> states[current_state + 1].immediate.next]
    ELSE [states |-> Append([states EXCEPT ![current_state + 1].immediate = NextState(Len(states))],
                            TransitionTableDefault),
          current_state |-> Len(states)]

\* Mutant of AdvanceRegister: always builds a new state, dropping the transition
\* an earlier pattern built.
AdvanceRegisterAlwaysNew(states, current_state) ==
    [states |-> Append([states EXCEPT ![current_state + 1].register = NextState(Len(states))],
                       TransitionTableDefault),
     current_state |-> Len(states)]

\* Walk the register transition of the current state, or build it.
AdvanceRegister(states, current_state) ==
    IF states[current_state + 1].register.tag = "NextState"
    THEN [states |-> states, current_state |-> states[current_state + 1].register.next]
    ELSE [states |-> Append([states EXCEPT ![current_state + 1].register = NextState(Len(states))],
                            TransitionTableDefault),
          current_state |-> Len(states)]

\* Mutant of AdvanceComma: always builds a new state.
AdvanceCommaAlwaysNew(states, current_state) ==
    [states |-> Append([states EXCEPT ![current_state + 1].comma = NextState(Len(states))],
                       TransitionTableDefault),
     current_state |-> Len(states)]

\* Walk the comma transition of the current state, or build it.
AdvanceComma(states, current_state) ==
    IF states[current_state + 1].comma.tag = "NextState"
    THEN [states |-> states, current_state |-> states[current_state + 1].comma.next]
    ELSE [states |-> Append([states EXCEPT ![current_state + 1].comma = NextState(Len(states))],
                            TransitionTableDefault),
          current_state |-> Len(states)]

\* codegen_brackets(..).if_ok(&mut logger, |bracket| codegen.push(bracket))
TemplateBracket(g, brackets) ==
    [g EXCEPT !.lexer = brackets.lexer,
              !.logger = if_ok(brackets.result, @),
              !.codegen = IF brackets.result.result.some
                          THEN Append(@, brackets.result.result.val) ELSE @]

\* Mutant of TemplateStep: an immediate of any width becomes a byte-level step.
TemplateStepAnyWidth(g, name, registers, immediates) ==
    IF LexerPeek(g.lexer).t = "Immediate" /\ LexerPeek(g.lexer).v < Len(immediates)
    THEN [g EXCEPT !.lexer = LexerAdvance(@),
                   !.codegen = Append(@, CodegenImmediate(immediates[LexerPeek(g.lexer).v + 1][1],
                                                          immediates[LexerPeek(g.lexer).v + 1][2]))]
    ELSE [g EXCEPT !.lexer = LexerAdvance(@),
                   !.logger = log_error(@, "codegen only supports literal values, registers, and bracket groups"),
                   !.brk = TRUE]

\* One iteration of the codegen loop after '->'.  g is the loop's state: the
\* lexer, the logger, the codegen built so far and whether the loop broke.
TemplateStep(g, name, registers, immediates) ==
    LET token == LexerPeek(g.lexer)
        g1 == [g EXCEPT !.lexer = LexerAdvance(@)]
    IN CASE token.t = "Integer" ->
              [g1 EXCEPT !.logger = IF token.v > 255
                                    THEN log_warning(@, "is larger than 8 bits and will be truncated")
                                    ELSE @,
                         !.codegen = Append(@, CodegenByte(token.v % 256))]
         [] token.t = "Immediate" ->
              IF token.v >= Len(immediates)
              THEN [g1 EXCEPT !.logger = log_error(@, "uses immediate which is not given in the instruction pattern"),
                              !.brk = TRUE]
              ELSE LET immediate == immediates[token.v + 1]
                   IN IF immediate[2] % 8 # 0
                      THEN [g1 EXCEPT !.logger = log_error(@, "immediate width must be byte aligned (for now)")]
                      ELSE [g1 EXCEPT !.codegen = Append(@, CodegenImmediate(immediate[1], immediate[2]))]
         [] token.t = "Register" ->
              [g1 EXCEPT !.logger = IF token.v >= registers
                                    THEN log_error(@, "uses register which is not given in the instruction pattern")
                                    ELSE @,
                         !.codegen = Append(@, CodegenRegister(token.v))]
         [] token.t = "OpenBracket" ->
              TemplateBracket(g1, codegen_brackets(g1.lexer, name, registers, immediates))
         [] OTHER ->
              [g1 EXCEPT !.logger = log_error(@, "codegen only supports literal values, registers, and bracket groups"),
                         !.brk = TRUE]

RECURSIVE TemplateLoop(_, _, _, _)
TemplateLoop(g, name, registers, immediates) ==
    IF g.brk \/ LexerAtEnd(g.lexer) THEN g
    ELSE TemplateLoop(TemplateStep(g, name, registers, immediates), name, registers, immediates)

\* The Token::Immediate arm of the pattern loop.  c is the state of the loop
\* over one config line: lexer, logger, states, current_state, registers,
\* immediates, accept_state, and whether the loop broke.
PatternImmediatePush(c, im, width, adv) ==
    [c EXCEPT !.immediates = Append(@, <<im, width>>),
              !.states = adv.states,
              !.current_state = adv.current_state]
PatternImmediateWidth(c, im) ==
    IF LexerAtEnd(c.lexer)
    THEN [c EXCEPT !.logger = log_error(@, "expected width of immediate"), !.brk = TRUE]
    ELSE IF LexerPeek(c.lexer).t # "Integer"
    THEN [c EXCEPT !.lexer = LexerAdvance(@),
                   !.logger = log_error(@, "expected width of immediate, but got"),
                   !.brk = TRUE]
    ELSE PatternImmediatePush([c EXCEPT !.lexer = LexerAdvance(@)], im, LexerPeek(c.lexer).v,
                              AdvanceImmediate(c.states, c.current_state))
PatternImmediateColon(c, im) ==
    IF LexerAtEnd(c.lexer)
    THEN [c EXCEPT !.logger = log_error(@, "expected width of immediate")]
    ELSE IF LexerPeek(c.lexer).t # "Colon"
    THEN [c EXCEPT !.lexer = LexerAdvance(@),
                   !.logger = log_error(@, "expected width of immediate, but got")]
    ELSE PatternImmediateWidth([c EXCEPT !.lexer = LexerAdvance(@)], im)
PatternImmediate(c, token) ==
    PatternImmediateColon(
        [c EXCEPT !.logger = IF token.v > Len(c.immediates)
                             THEN log_warning(@, "immediates are parsed in the order they appear regardless of number")
                             ELSE @],
        token.v)

\* The Token::Register arm of the pattern loop.
PatternRegisterAdvance(c, adv) ==
    [c EXCEPT !.states = adv.states, !.current_state = adv.current_state, !.registers = @ + 1]
PatternRegister(c, token) ==
    PatternRegisterAdvance(
        [c EXCEPT !.logger = IF token.v # c.registers
                             THEN log_warning(@, "registers are parsed in the order they appear regardless of number")
                             ELSE @],
        AdvanceRegister(c.states, c.current_state))

\* The Token::Comma arm of the pattern loop.
PatternCommaAdvance(c, adv) ==
    [c EXCEPT !.states = adv.states, !.current_state = adv.current_state]
PatternComma(c) == PatternCommaAdvance(c, AdvanceComma(c.states, c.current_state))

\* The Token::Arrow arm: attach the codegen to the state reached, unless that
\* state already accepts.
PatternAccept(c, g) ==
    [c EXCEPT !.lexer = g.lexer,
              !.logger = g.logger,
              !.states[c.current_state + 1].accept_codegen = Some(g.codegen),
              !.accept_state = TRUE, !.brk = TRUE]
\* Mutant of PatternArrow: the last pattern of a shape wins, without an error.
PatternArrowLastWins(c, name) ==
    PatternAccept(c, TemplateLoop([lexer |-> c.lexer, logger |-> c.logger,
                                   codegen |-> <<>>, brk |-> FALSE],
                                  name, c.registers, c.immediates))
PatternArrow(c, name) ==
    IF c.states[c.current_state + 1].accept_codegen.some
    THEN [c EXCEPT !.logger = log_error(@, "conflicting patterns for instruction"),
                   !.accept_state = TRUE, !.brk = TRUE]
    ELSE PatternAccept(c, TemplateLoop([lexer |-> c.lexer, logger |-> c.logger,
                                        codegen |-> <<>>, brk |-> FALSE],
                                       name, c.registers, c.immediates))

\* One iteration of `while let Some(token) = lexer.next()`.
PatternToken(c, token, name) ==
    CASE token.t = "Immediate" -> PatternImmediate(c, token)
      [] token.t = "Register" -> PatternRegister(c, token)
      [] token.t = "Comma" -> PatternComma(c)
      [] token.t = "Arrow" -> PatternArrow(c, name)
      [] OTHER -> [c EXCEPT !.logger = log_error(@, "unexpected token in instrution pattern")]
PatternStep(c, name) ==
    PatternToken([c EXCEPT !.lexer = LexerAdvance(@)], LexerPeek(c.lexer), name)

RECURSIVE PatternLoop(_, _)
PatternLoop(c, name) ==
    IF c.brk \/ LexerAtEnd(c.lexer) THEN c ELSE PatternLoop(PatternStep(c, name), name)

\* source.split_once("->").0: the tokens of the line before its first '->'.
RECURSIVE SplitOnceArrow(_)
SplitOnceArrow(source) ==
    IF source = <<>> \/ Head(source).t = "Arrow" THEN <<>>
    ELSE <<Head(source)>> \o SplitOnceArrow(Tail(source))

\* The syntax string of a pattern: the fold over the lexemes before '->',
\* lower-cased, a space before a lexeme unless the string is empty or ends
\* with ':' or the lexeme is ',' or ':'.
Space == Lexeme("Space", 0, "")
RECURSIVE lex_fold(_, _)
lex_fold(a, syntax) ==
    IF syntax = <<>> THEN a
    ELSE LET slice == [Head(syntax) EXCEPT !.s = to_lowercase(@)]
         IN lex_fold(IF a = <<>> \/ a[Len(a)].t = "Colon" \/ slice.t = "Comma" \/ slice.t = "Colon"
                     THEN Append(a, slice)
                     ELSE a \o <<Space, slice>>,
                     Tail(syntax))

\* map.entry(name).or_insert(Instruction { .. })
EntryOrInsert(map, name) ==
    IF name \in DOMAIN map THEN map
    ELSE [n \in DOMAIN map \cup {name} |-> IF n = name THEN InstructionNew ELSE map[n]]

\* The end of the loop body: the missing '->', or the syntax of the pattern.
CompileLineEnd(map, name, source, c) ==
    IF ~c.accept_state
    THEN [map |-> [map EXCEPT ![name].states = c.states],
          logger |-> log_error(c.logger, "expected '->' following an instruction pattern")]
    ELSE [map |-> [map EXCEPT ![name].states = c.states,
                              ![name].syntaxes = Append(@, lex_fold(<<>>, SplitOnceArrow(source)))],
          logger |-> c.logger]

\* The pattern of an instruction: enter it in the map and run the pattern loop.
CompilePattern(map, logger, name, source) ==
    CompileLineEnd(map, name, source,
                   PatternLoop([lexer |-> LexerAdvance(LexerNew(source)), logger |-> logger,
                                states |-> map[name].states, current_state |-> 0,
                                registers |-> 0, immediates |-> <<>>,
                                accept_state |-> FALSE, brk |-> FALSE], name))

\* The body of the loop over config lines: compiles one line into the map.
CompileLine(map, logger, line, source) ==
    IF source = <<>> THEN [map |-> map, logger |-> [logger EXCEPT !.origin = line]]
    ELSE IF source[1].t # "Ident"
    THEN [map |-> map,
          logger |-> log_error([logger EXCEPT !.origin = line],
                               "only instruction patterns are supported in the assembler config at the moment")]
    ELSE CompilePattern(EntryOrInsert(map, to_lowercase(source[1].s)),
                        [logger EXCEPT !.origin = line],
                        to_lowercase(source[1].s), source)

\* ------------------------------------------------ parser.rs: the encoder
\* u64::to_le_bytes: the 8 bytes of the value, lowest first.
RECURSIVE LeBytes(_, _)
LeBytes(v, n) == IF n = 0 THEN <<>> ELSE <<v % 256>> \o LeBytes(v \div 256, n - 1)
to_le_bytes(imm) == LeBytes(imm, 8)

\* u64::leading_zeros
RECURSIVE BitLen(_)
BitLen(v) == IF v = 0 THEN 0 ELSE 1 + BitLen(v \div 2)
leading_zeros(imm) == 64 - BitLen(imm)

\* The decode closure: the byte a codegen datum stands for.  An index past the
\* end of a capture buffer panics.
DecodePanics(data, registers, immediates) ==
    CASE data.tag = "Byte" -> FALSE
      [] data.tag = "Register" -> data.r >= Len(registers)
      [] data.tag = "Immediate" -> data.imm >= Len(immediates)
decode(data, registers, immediates) ==
    CASE data.tag = "Byte" -> data.b
      [] data.tag = "Register" -> registers[data.r + 1]
      [] data.tag = "Immediate" -> immediates[data.imm + 1] % 256

\* ------------------------------------------------------------ the inputs
\* Config lines, as the lexer tokenizes them.
Cfg_add_r0_r1 ==      \* add r0, r1 -> 0x01 r0 r1
    <<TokenIdent("add"), TokenRegister(0), TokenComma, TokenRegister(1), TokenArrow,
      TokenInteger(1), TokenRegister(0), TokenRegister(1)>>
Cfg_mov_r3_r1 ==      \* mov r3, r1 -> 0x10 r0 r1
    <<TokenIdent("mov"), TokenRegister(3), TokenComma, TokenRegister(1), TokenArrow,
      TokenInteger(16), TokenRegister(0), TokenRegister(1)>>
Cfg_ADD_r0 ==         \* ADD r0 -> 0x104 r0
    <<TokenIdent("ADD"), TokenRegister(0), TokenArrow, TokenInteger(260), TokenRegister(0)>>
Cfg_add_r0_r1_again == \* add r0, r1 -> 0x05
    <<TokenIdent("add"), TokenRegister(0), TokenComma, TokenRegister(1), TokenArrow,
      TokenInteger(5)>>
Cfg_add_no_arrow ==   \* add r0
    <<TokenIdent("add"), TokenRegister(0)>>
Cfg_add_undeclared == \* add r0 -> r1
    <<TokenIdent("add"), TokenRegister(0), TokenArrow, TokenRegister(1)>>
Cfg_add_5_r0 ==       \* add 5 r0 -> 1
    <<TokenIdent("add"), TokenInteger(5), TokenRegister(0), TokenArrow, TokenInteger(1)>>
Cfg_empty == <<>>
Cfg_not_ident ==      \* 5 -> 1
    <<TokenInteger(5), TokenArrow, TokenInteger(1)>>

Cfg_ldi_i0_8 ==       \* ldi i0:8 -> 0x02 i0
    <<TokenIdent("ldi"), TokenImmediate(0), TokenColon, TokenInteger(8), TokenArrow,
      TokenInteger(2), TokenImmediate(0)>>
Cfg_ldw_i1_i0 ==      \* ldw i1:16, i0:8 -> i0 i1
    <<TokenIdent("ldw"), TokenImmediate(1), TokenColon, TokenInteger(16), TokenComma,
      TokenImmediate(0), TokenColon, TokenInteger(8), TokenArrow,
      TokenImmediate(0), TokenImmediate(1)>>
Cfg_LDI_i3_8 ==       \* LDI i3:8 -> i0
    <<TokenIdent("LDI"), TokenImmediate(3), TokenColon, TokenInteger(8), TokenArrow,
      TokenImmediate(0)>>
Cfg_big_i0_72 ==      \* big i0:72 -> i0
    <<TokenIdent("big"), TokenImmediate(0), TokenColon, TokenInteger(72), TokenArrow,
      TokenImmediate(0)>>
Cfg_ldi_i0_12 ==      \* ldi i0:12 -> i0
    <<TokenIdent("ldi"), TokenImmediate(0), TokenColon, TokenInteger(12), TokenArrow,
      TokenImmediate(0)>>
Cfg_ldi_no_width ==   \* ldi i0 -> 1
    <<TokenIdent("ldi"), TokenImmediate(0), TokenArrow, TokenInteger(1)>>

Cfg_pack_r0_r1 ==     \* pack r0, r1 -> [r0 | r1]
    <<TokenIdent("pack"), TokenRegister(0), TokenComma, TokenRegister(1), TokenArrow,
      TokenOpenBracket, TokenRegister(0), TokenOr, TokenRegister(1), TokenCloseBracket>>
Cfg_nib_i0_4 ==       \* nib i0:4 -> [i0 | 0x1F]
    <<TokenIdent("nib"), TokenImmediate(0), TokenColon, TokenInteger(4), TokenArrow,
      TokenOpenBracket, TokenImmediate(0), TokenOr, TokenInteger(31), TokenCloseBracket>>
Cfg_pack_r0 ==        \* pack r0 -> [r0 | 2] 7
    <<TokenIdent("pack"), TokenRegister(0), TokenArrow,
      TokenOpenBracket, TokenRegister(0), TokenOr, TokenInteger(2), TokenCloseBracket,
      TokenInteger(7)>>
Cfg_pack_unclosed ==  \* pack r0 -> [r0 r0
    <<TokenIdent("pack"), TokenRegister(0), TokenArrow,
      TokenOpenBracket, TokenRegister(0), TokenRegister(0)>>
Cfg_nib_i0_8 ==       \* nib i0:8 -> [i0 | 1]
    <<TokenIdent("nib"), TokenImmediate(0), TokenColon, TokenInteger(8), TokenArrow,
      TokenOpenBracket, TokenImmediate(0), TokenOr, TokenInteger(1), TokenCloseBracket>>
Cfg_nib_i1_4 ==       \* nib i1:4 -> [i0 | 1]
    <<TokenIdent("nib"), TokenImmediate(1), TokenColon, TokenInteger(4), TokenArrow,
      TokenOpenBracket, TokenImmediate(0), TokenOr, TokenInteger(1), TokenCloseBracket>>

RegisterConfigLines ==
    {Cfg_add_r0_r1, Cfg_mov_r3_r1, Cfg_ADD_r0, Cfg_add_r0_r1_again, Cfg_add_no_arrow,
     Cfg_add_undeclared, Cfg_add_5_r0, Cfg_empty, Cfg_not_ident}
ImmediateConfigLines ==
    {Cfg_ldi_i0_8, Cfg_ldw_i1_i0, Cfg_LDI_i3_8, Cfg_big_i0_72, Cfg_ldi_i0_12, Cfg_ldi_no_width}
BracketConfigLines ==
    {Cfg_pack_r0_r1, Cfg_nib_i0_4, Cfg_pack_r0, Cfg_pack_unclosed, Cfg_nib_i0_8,
     Cfg_nib_i1_4}

\* Source lines, as the lexer tokenizes them.
Src_add_r2_r3 == <<TokenIdent("add"), TokenRegister(2), TokenComma, TokenRegister(3)>>
Src_mov_r9_r4 == <<TokenIdent("mov"), TokenRegister(9), TokenComma, TokenRegister(4)>>
Src_Add_r16_r1 == <<TokenIdent("Add"), TokenRegister(16), TokenComma, TokenRegister(1)>>
Src_add_r1 == <<TokenIdent("add"), TokenRegister(1)>>
Src_nop == <<TokenIdent("nop")>>
Src_add_5 == <<TokenIdent("add"), TokenInteger(5)>>

Src_ldi_0x1FF == <<TokenIdent("ldi"), TokenInteger(511)>>
Src_ldi_5 == <<TokenIdent("ldi"), TokenInteger(5)>>
Src_ldi_0xFF == <<TokenIdent("ldi"), TokenInteger(255)>>
Src_ldw_0x12345_7 == <<TokenIdent("ldw"), TokenInteger(74565), TokenComma, TokenInteger(7)>>
Src_big_1 == <<TokenIdent("big"), TokenInteger(1)>>
Src_ldi_r1 == <<TokenIdent("ldi"), TokenRegister(1)>>
Src_not_ident == <<TokenInteger(7)>>
Src_empty == <<>>

Src_pack_r5_r2 == <<TokenIdent("pack"), TokenRegister(5), TokenComma, TokenRegister(2)>>
Src_pack_r5 == <<TokenIdent("pack"), TokenRegister(5)>>
Src_nib_0x2B == <<TokenIdent("nib"), TokenInteger(43)>>
Src_pack_comma == <<TokenIdent("pack"), TokenComma, TokenRegister(1)>>
Src_pack_r5_or == <<TokenIdent("pack"), TokenRegister(5), TokenOr>>

RegisterSourceLines ==
    {Src_add_r2_r3, Src_mov_r9_r4, Src_Add_r16_r1, Src_add_r1, Src_nop, Src_add_5}
ImmediateSourceLines ==
    {Src_ldi_0x1FF, Src_ldi_5, Src_ldi_0xFF, Src_ldw_0x12345_7, Src_big_1, Src_ldi_r1, Src_not_ident, Src_empty}
BracketSourceLines ==
    {Src_pack_r5_r2, Src_pack_r5, Src_nib_0x2B, Src_pack_comma, Src_pack_r5_or}

\* A run stays within one group of instructions: the first config line picks
\* the group the later config lines and the source lines are drawn from.
ConfigLines(config) ==
    IF config = <<>> THEN RegisterConfigLines \cup ImmediateConfigLines \cup BracketConfigLines
    ELSE IF config[1] \in RegisterConfigLines THEN RegisterConfigLines
    ELSE IF config[1] \in ImmediateConfigLines THEN ImmediateConfigLines
    ELSE BracketConfigLines
SourceLines(config) ==
    IF config = <<>> \/ config[1] \in RegisterConfigLines THEN RegisterSourceLines
    ELSE IF config[1] \in ImmediateConfigLines THEN ImmediateSourceLines
    ELSE BracketSourceLines

\* ------------------------------------------------------------- the state
VARIABLES
    pc,                  \* "config", "failed", "line", "walk", "codegen", "done", "panic"
    config,              \* the config lines read so far
    map,                 \* create_assembler_from_config: mnemonic -> Instruction
    cfg_logger,          \* create_assembler_from_config: its logger
    assembler,           \* the LoggedResult<Assembler> it returns
    text,                \* history: the source lines read so far
    line,                \* assemble: the number of source lines read so far
    lexer,               \* assemble: the lexer of the current source line
    name,                \* assemble: the lower-cased mnemonic of the line
    current_state,       \* assemble: the DFA state of the walk
    captured_registers,  \* assemble: registers captured
    captured_immediates, \* assemble: immediates captured
    output,              \* assemble: the bytes emitted
    output_line,         \* history: for each byte of output, the line that emitted it
    logger,              \* assemble: its logger
    data_pos,            \* assemble: how many codegen steps of the line are evaluated
    result,              \* the LoggedResult<Vec<u8>> assemble returns
    logged,              \* log.rs: a LoggedResult<T> under its operations
    last                 \* history: the last operation on logged, and logged before it

cfg_vars == <<config, map, cfg_logger, assembler>>
asm_vars == <<text, line, lexer, name, current_state, captured_registers, captured_immediates,
              output, output_line, logger, data_pos, result>>
log_vars == <<logged, last>>
vars == <<pc, config, map, cfg_logger, assembler, text, line, lexer, name, current_state,
          captured_registers, captured_immediates, output, output_line, logger,
          data_pos, result, logged, last>>

Init ==
    /\ pc = "config"
    /\ config = <<>>
    /\ map = <<>>
    /\ cfg_logger = LoggerNew(NoOrigin)
    /\ assembler = [result |-> None, logs |-> <<>>]
    /\ text = <<>>
    /\ line = 0
    /\ lexer = LexerNew(<<>>)
    /\ name = ""
    /\ current_state = 0
    /\ captured_registers = <<>>
    /\ captured_immediates = <<>>
    /\ output = <<>>
    /\ output_line = <<>>
    /\ logger = LoggerNew(NoOrigin)
    /\ data_pos = 0
    /\ result = [result |-> None, logs |-> <<>>]
    /\ logged = [result |-> None, logs |-> <<>>]
    /\ last = [op |-> "new", origin |-> NoOrigin, before |-> [result |-> None, logs |-> <<>>]]

\* Mutant of ConfigLine: the line number the diagnostics carry is arbitrary.
ConfigLineAnyOrigin(source) ==
    /\ pc = "config"
    /\ Len(config) < MaxConfigLines
    /\ \E n \in 0..Len(config) :
          /\ map' = CompileLine(map, cfg_logger, n, source).map
          /\ cfg_logger' = CompileLine(map, cfg_logger, n, source).logger
    /\ config' = Append(config, source)
    /\ UNCHANGED <<pc, assembler>>
    /\ UNCHANGED asm_vars
    /\ UNCHANGED log_vars

\* create_assembler_from_config: one iteration of the loop over config lines.
ConfigLine(source) ==
    /\ pc = "config"
    /\ Len(config) < MaxConfigLines
    /\ LET done == CompileLine(map, cfg_logger, Len(config), source)
       IN /\ map' = done.map
          /\ cfg_logger' = done.logger
    /\ config' = Append(config, source)
    /\ UNCHANGED <<pc, assembler>>
    /\ UNCHANGED asm_vars
    /\ UNCHANGED log_vars

\* Mutant of ConfigDone: a warning suppresses the Assembler as an error does.
ConfigDoneWarningsFail ==
    /\ pc = "config"
    /\ assembler' = IF cfg_logger.logs = <<>>
                    THEN into_result(cfg_logger, [instructions |-> map])
                    ELSE into_none(cfg_logger)
    /\ pc' = IF assembler'.result.some THEN "line" ELSE "failed"
    /\ UNCHANGED <<config, map, cfg_logger>>
    /\ UNCHANGED asm_vars
    /\ UNCHANGED log_vars

\* create_assembler_from_config: the end of the config text.
ConfigDone ==
    /\ pc = "config"
    /\ assembler' = into_result(cfg_logger, [instructions |-> map])
    /\ pc' = IF assembler'.result.some THEN "line" ELSE "failed"
    /\ UNCHANGED <<config, map, cfg_logger>>
    /\ UNCHANGED asm_vars
    /\ UNCHANGED log_vars

instructions == assembler.result.val.instructions
instruction == instructions[name]

\* assemble: the head of one iteration of the loop over source lines, up to
\* the lookup of the instruction.
LineStart(source) ==
    /\ pc = "line"
    /\ line < MaxSourceLines
    /\ text' = Append(text, source)
    /\ line' = line + 1
    /\ captured_registers' = <<>>
    /\ LET origin == [logger EXCEPT !.origin = line]
           first == LexerNew(source)
           ident == to_lowercase(LexerPeek(first).s)
       IN IF LexerAtEnd(first)
          THEN /\ lexer' = first
               /\ logger' = origin
               /\ UNCHANGED <<pc, name, current_state>>
          ELSE /\ lexer' = LexerAdvance(first)
               /\ IF LexerPeek(first).t # "Ident"
                  THEN /\ logger' = log_error(origin, "unexpected token")
                       /\ UNCHANGED <<pc, name, current_state>>
                  ELSE IF ident \notin DOMAIN instructions
                  THEN /\ logger' = log_error(origin, "unknown instruction")
                       /\ UNCHANGED <<pc, name, current_state>>
                  ELSE /\ logger' = origin
                       /\ name' = ident
                       /\ current_state' = 0
                       /\ pc' = "walk"
    /\ UNCHANGED <<captured_immediates, output, output_line, data_pos, result>>
    /\ UNCHANGED cfg_vars
    /\ UNCHANGED log_vars

\* Mutant of Abandon: the first error ends the loop over the source lines.
AbandonBreak(message) ==
    /\ logger' = log_error(log_error(logger, message), "syntaxes available for")
    /\ pc' = "done"

\* log the error and the syntaxes of the instruction, then `continue 'outer`.
Abandon(message) ==
    /\ logger' = log_error(log_error(logger, message), "syntaxes available for")
    /\ pc' = "line"

\* The walk meets an integer literal.
WalkInteger ==
    /\ pc = "walk"
    /\ ~LexerAtEnd(lexer)
    /\ LexerPeek(lexer).t = "Integer"
    /\ lexer' = LexerAdvance(lexer)
    /\ IF instruction.states[current_state + 1].immediate.tag = "NextState"
       THEN /\ captured_immediates' = Append(captured_immediates, LexerPeek(lexer).v)
            /\ current_state' = instruction.states[current_state + 1].immediate.next
            /\ UNCHANGED <<pc, logger>>
       ELSE /\ Abandon("unexpected immediate")
            /\ UNCHANGED <<captured_immediates, current_state>>
    /\ UNCHANGED <<text, line, name, captured_registers, output, output_line, data_pos, result>>
    /\ UNCHANGED cfg_vars
    /\ UNCHANGED log_vars

\* Mutant of WalkRegister: the register is emitted as soon as it is captured.
WalkRegisterEmits ==
    /\ pc = "walk"
    /\ ~LexerAtEnd(lexer)
    /\ LexerPeek(lexer).t = "Register"
    /\ lexer' = LexerAdvance(lexer)
    /\ IF instruction.states[current_state + 1].register.tag = "NextState"
       THEN IF LexerPeek(lexer).v > 15
            THEN /\ logger' = log_error(logger, "register out of bounds")
                 /\ pc' = "line"
                 /\ UNCHANGED <<captured_registers, current_state, output, output_line>>
            ELSE /\ captured_registers' = Append(captured_registers, LexerPeek(lexer).v % 256)
                 /\ current_state' = instruction.states[current_state + 1].register.next
                 /\ output' = Append(output, LexerPeek(lexer).v % 256)
                 /\ output_line' = Append(output_line, line - 1)
                 /\ UNCHANGED <<pc, logger>>
       ELSE /\ logger' = log_error(log_error(logger, "unexpected register"), "syntaxes available for")
            /\ pc' = "line"
            /\ UNCHANGED <<captured_registers, current_state, output, output_line>>
    /\ UNCHANGED <<text, line, name, captured_immediates, data_pos, result>>
    /\ UNCHANGED cfg_vars
    /\ UNCHANGED log_vars

\* Mutant of WalkRegister: the numeral is captured without the bound on it.
WalkRegisterUnbounded ==
    /\ pc = "walk"
    /\ ~LexerAtEnd(lexer)
    /\ LexerPeek(lexer).t = "Register"
    /\ lexer' = LexerAdvance(lexer)
    /\ IF instruction.states[current_state + 1].register.tag = "NextState"
       THEN /\ captured_registers' = Append(captured_registers, LexerPeek(lexer).v % 256)
            /\ current_state' = instruction.states[current_state + 1].register.next
            /\ UNCHANGED <<pc, logger>>
       ELSE /\ Abandon("unexpected register")
            /\ UNCHANGED <<captured_registers, current_state>>
    /\ UNCHANGED <<text, line, name, captured_immediates, output, output_line, data_pos, result>>
    /\ UNCHANGED cfg_vars
    /\ UNCHANGED log_vars

\* The walk meets a register.
WalkRegister ==
    /\ pc = "walk"
    /\ ~LexerAtEnd(lexer)
    /\ LexerPeek(lexer).t = "Register"
    /\ lexer' = LexerAdvance(lexer)
    /\ IF instruction.states[current_state + 1].register.tag = "NextState"
       THEN IF LexerPeek(lexer).v > 15
            THEN /\ logger' = log_error(logger, "register out of bounds")
                 /\ pc' = "line"
                 /\ UNCHANGED <<captured_registers, current_state>>
            ELSE /\ captured_registers' = Append(captured_registers, LexerPeek(lexer).v % 256)
                 /\ current_state' = instruction.states[current_state + 1].register.next
                 /\ UNCHANGED <<pc, logger>>
       ELSE /\ Abandon("unexpected register")
            /\ UNCHANGED <<captured_registers, current_state>>
    /\ UNCHANGED <<text, line, name, captured_immediates, output, output_line, data_pos, result>>
    /\ UNCHANGED cfg_vars
    /\ UNCHANGED log_vars

\* The walk meets a comma.
WalkComma ==
    /\ pc = "walk"
    /\ ~LexerAtEnd(lexer)
    /\ LexerPeek(lexer).t = "Comma"
    /\ lexer' = LexerAdvance(lexer)
    /\ IF instruction.states[current_state + 1].comma.tag = "NextState"
       THEN /\ current_state' = instruction.states[current_state + 1].comma.next
            /\ UNCHANGED <<pc, logger>>
       ELSE /\ Abandon("unexpected comma")
            /\ UNCHANGED current_state
    /\ UNCHANGED <<text, line, name, captured_registers, captured_immediates, output,
                   output_line, data_pos, result>>
    /\ UNCHANGED cfg_vars
    /\ UNCHANGED log_vars

\* The walk meets the end of the line.
WalkNone ==
    /\ pc = "walk"
    /\ LexerAtEnd(lexer)
    /\ IF instruction.states[current_state + 1].accept_codegen.some
       THEN /\ pc' = "codegen"
            /\ data_pos' = 0
            /\ UNCHANGED logger
       ELSE /\ Abandon("syntax error")
            /\ UNCHANGED data_pos
    /\ UNCHANGED <<text, line, lexer, name, current_state, captured_registers,
                   captured_immediates, output, output_line, result>>
    /\ UNCHANGED cfg_vars
    /\ UNCHANGED log_vars

\* The walk meets any other token.
WalkOther ==
    /\ pc = "walk"
    /\ ~LexerAtEnd(lexer)
    /\ LexerPeek(lexer).t \notin {"Integer", "Register", "Comma"}
    /\ lexer' = LexerAdvance(lexer)
    /\ Abandon("unexpected token")
    /\ UNCHANGED <<text, line, name, current_state, captured_registers, captured_immediates,
                   output, output_line, data_pos, result>>
    /\ UNCHANGED cfg_vars
    /\ UNCHANGED log_vars

codegen == instruction.states[current_state + 1].accept_codegen.val

\* output grows by bytes, emitted by the current line.
Emit(bytes) ==
    /\ output' = output \o bytes
    /\ output_line' = output_line \o [k \in 1..Len(bytes) |-> line - 1]

\* A byte-level Immediate(imm, b) step.  It panics when imm is no index of
\* captured_immediates, and when b > 64: 64 - b overflows (checked builds),
\* and b / 8 is past the 8 bytes of the value (all builds).
CodegenImmediateStep(imm, b) ==
    IF imm >= Len(captured_immediates) \/ 64 - b < 0 \/ b \div 8 > 8
    THEN /\ pc' = "panic"
         /\ UNCHANGED <<output, output_line, logger, data_pos>>
    ELSE LET value == captured_immediates[imm + 1]
         IN /\ logger' = IF leading_zeros(value) < 64 - b + 1
                         THEN log_warning(logger, "will be truncated")
                         ELSE logger
            /\ Emit(SubSeq(to_le_bytes(value), 1, b \div 8))
            /\ data_pos' = data_pos + 1
            /\ UNCHANGED pc

\* One iteration of `for data in codegen`.
CodegenStep ==
    /\ pc = "codegen"
    /\ data_pos < Len(codegen)
    /\ LET data == codegen[data_pos + 1]
       IN IF data.kind = "Data"
          THEN IF data.data.tag = "Immediate"
               THEN CodegenImmediateStep(data.data.imm, data.data.b)
               ELSE IF DecodePanics(data.data, captured_registers, captured_immediates)
               THEN /\ pc' = "panic"
                    /\ UNCHANGED <<output, output_line, logger, data_pos>>
               ELSE /\ Emit(<<decode(data.data, captured_registers, captured_immediates)>>)
                    /\ data_pos' = data_pos + 1
                    /\ UNCHANGED <<pc, logger>>
          ELSE IF \/ DecodePanics(data.upper, captured_registers, captured_immediates)
                  \/ DecodePanics(data.lower, captured_registers, captured_immediates)
               THEN /\ pc' = "panic"
                    /\ UNCHANGED <<output, output_line, logger, data_pos>>
               ELSE LET upper == decode(data.upper, captured_registers, captured_immediates)
                        lower == decode(data.lower, captured_registers, captured_immediates)
                    IN /\ Emit(<<(upper % 16) * 16 + (lower % 16)>>)
                       /\ data_pos' = data_pos + 1
                       /\ UNCHANGED <<pc, logger>>
    /\ UNCHANGED <<text, line, lexer, name, current_state, captured_registers,
                   captured_immediates, result>>
    /\ UNCHANGED cfg_vars
    /\ UNCHANGED log_vars

\* The codegen of the line is exhausted: on to the next line.
CodegenEnd ==
    /\ pc = "codegen"
    /\ data_pos = Len(codegen)
    /\ pc' = "line"
    /\ UNCHANGED asm_vars
    /\ UNCHANGED cfg_vars
    /\ UNCHANGED log_vars

\* Mutant of AssembleDone: a warning suppresses the bytes as an error does.
AssembleDoneWarningsFail ==
    /\ pc = "line"
    /\ result' = IF logger.logs = <<>> THEN into_result(logger, output) ELSE into_none(logger)
    /\ pc' = "done"
    /\ UNCHANGED <<text, line, lexer, name, current_state, captured_registers,
                   captured_immediates, output, output_line, logger, data_pos>>
    /\ UNCHANGED cfg_vars
    /\ UNCHANGED log_vars

\* assemble: the end of the source text.
AssembleDone ==
    /\ pc = "line"
    /\ result' = into_result(logger, output)
    /\ pc' = "done"
    /\ UNCHANGED <<text, line, lexer, name, current_state, captured_registers,
                   captured_immediates, output, output_line, logger, data_pos>>
    /\ UNCHANGED cfg_vars
    /\ UNCHANGED log_vars
Next ==
    \/ \E source \in ConfigLines(config) : ConfigLine(source)
    \/ ConfigDone
    \/ \E source \in SourceLines(config) : LineStart(source)
    \/ WalkInteger
    \/ WalkRegister
    \/ WalkComma
    \/ WalkNone
    \/ WalkOther
    \/ CodegenStep
    \/ CodegenEnd
    \/ AssembleDone

Spec == Init /\ [][Next]_vars

\* ===================================================== the properties
\* What a pattern line and a source line say, read off their tokens.
Mnemonic(source) == to_lowercase(source[1].s)
IsPattern(source) == source # <<>> /\ source[1].t = "Ident"
Template(source) == SubSeq(source, Len(SplitOnceArrow(source)) + 2, Len(source))

\* The operand shape of a pattern line: the categories of its operand tokens.
RECURSIVE ShapeOf(_)
ShapeOf(tokens) ==
    IF tokens = <<>> THEN <<>>
    ELSE CASE Head(tokens).t = "Register" -> <<"register">> \o ShapeOf(Tail(tokens))
           [] Head(tokens).t = "Immediate" -> <<"immediate">> \o ShapeOf(Tail(tokens))
           [] Head(tokens).t = "Comma" -> <<"comma">> \o ShapeOf(Tail(tokens))
           [] OTHER -> ShapeOf(Tail(tokens))
PatternShape(source) == ShapeOf(Tail(SplitOnceArrow(source)))

\* The operand shape of a source line: an integer literal is an immediate.
OperandShape(source) ==
    [k \in 1..(Len(source) - 1) |->
        CASE source[k + 1].t = "Register" -> "register"
          [] source[k + 1].t = "Integer" -> "immediate"
          [] source[k + 1].t = "Comma" -> "comma"
          [] OTHER -> "other"]

\* The shapes the config read so far declares for a mnemonic.
DeclaredShapes(mnemonic) ==
    {PatternShape(config[k]) :
        k \in {j \in 1..Len(config) : IsPattern(config[j]) /\ Mnemonic(config[j]) = mnemonic}}

\* A source line made of a known mnemonic, registers up to r15, integer
\* literals and commas.
PlainOperands(source) ==
    /\ IsPattern(source)
    /\ Mnemonic(source) \in DOMAIN instructions
    /\ \A k \in 2..Len(source) :
          \/ source[k].t \in {"Integer", "Comma"}
          \/ source[k].t = "Register" /\ source[k].v <= 15

ErrorAt(logs, origin) ==
    \E k \in 1..Len(logs) : logs[k].level = "Error" /\ logs[k].origin = origin

\* The register and the immediate operands of a source line, in order.
RegisterOperands(source) ==
    LET registers == SelectSeq(source, LAMBDA t : t.t = "Register")
    IN [k \in 1..Len(registers) |-> registers[k].v]
ImmediateOperands(source) ==
    LET immediates == SelectSeq(source, LAMBDA t : t.t = "Integer")
    IN [k \in 1..Len(immediates) |-> immediates[k].v]

\* The walk of the current source line is about to start: only the mnemonic
\* has been read.
WalkStarts == pc = "walk" /\ lexer.pos = 2

\* C1: when the DFA walk of a source line starts, captured_registers and
\* captured_immediates are both empty, whatever lines came before.
C1_BuffersEmptyAtWalkStart ==
    WalkStarts => captured_registers = <<>> /\ captured_immediates = <<>>

\* C2: the merged DFA accepts exactly the declared operand shapes.  A line
\* that reaches its codegen has a shape some pattern of its mnemonic declares;
\* a finished line of plain operands logged no error if and only if its shape
\* is declared.
C2_AcceptsExactlyDeclaredShapes ==
    /\ pc = "codegen" => OperandShape(lexer.toks) \in DeclaredShapes(name)
    /\ (pc = "line" /\ line > 0 /\ PlainOperands(lexer.toks)) =>
          (OperandShape(lexer.toks) \in DeclaredShapes(Mnemonic(lexer.toks))
              <=> ~ErrorAt(logger.logs, line - 1))

C2_Witness ==
    /\ pc = "codegen"
    /\ name = "add"
    /\ Cardinality(DeclaredShapes(name)) = 2
    /\ OperandShape(lexer.toks) = <<"register">>

\* The pattern line the current source line matched, and the elements of its
\* template (a bracket group is one element).
MatchedPattern ==
    config[CHOOSE k \in 1..Len(config) :
              /\ IsPattern(config[k])
              /\ Mnemonic(config[k]) = name
              /\ PatternShape(config[k]) = OperandShape(lexer.toks)]
RECURSIVE TemplateElements(_)
TemplateElements(template) ==
    IF template = <<>> THEN <<>>
    ELSE IF Head(template).t = "OpenBracket"
         THEN <<Head(template)>> \o TemplateElements(SubSeq(template, 6, Len(template)))
         ELSE <<Head(template)>> \o TemplateElements(Tail(template))
Emitted == [k \in 1..(Len(output') - Len(output)) |-> output'[Len(output) + k]]

\* C3: positional capture.  On the first source line, a completed codegen step
\* for the template reference rK emits the K-th register operand of the line,
\* and one for iK emits the low bytes of its K-th immediate operand.
C3_PositionalCapture ==
    [][(pc = "codegen" /\ line = 1 /\ data_pos' = data_pos + 1) =>
          LET reference == TemplateElements(Template(MatchedPattern))[data_pos + 1]
          IN /\ reference.t = "Register" =>
                   Emitted = <<RegisterOperands(lexer.toks)[reference.v + 1]>>
             /\ reference.t = "Immediate" =>
                   \A k \in 1..Len(Emitted) :
                      Emitted[k] = LeBytes(ImmediateOperands(lexer.toks)[reference.v + 1], 8)[k]]_vars

\* C4: assemble never aborts the process.
C4_NoPanic == pc # "panic"

\* A pattern line whose operand shape is well formed and ends in '->'.
RECURSIVE WellFormedShape(_)
WellFormedShape(tokens) ==
    \/ tokens = <<>>
    \/ /\ Head(tokens).t \in {"Register", "Comma"}
       /\ WellFormedShape(Tail(tokens))
    \/ /\ Len(tokens) >= 3
       /\ tokens[1].t = "Immediate" /\ tokens[2].t = "Colon" /\ tokens[3].t = "Integer"
       /\ WellFormedShape(SubSeq(tokens, 4, Len(tokens)))
ShapeOk(source) ==
    /\ IsPattern(source)
    /\ Len(SplitOnceArrow(source)) < Len(source)
    /\ WellFormedShape(Tail(SplitOnceArrow(source)))

\* The config line read in this step repeats the shape of an earlier pattern
\* of the same mnemonic.
RepeatsShape(new) ==
    /\ ShapeOk(new)
    /\ \E k \in 1..Len(config) :
          /\ ShapeOk(config[k])
          /\ Mnemonic(config[k]) = Mnemonic(new)
          /\ PatternShape(config[k]) = PatternShape(new)

IsPrefix(s, t) == Len(s) <= Len(t) /\ SubSeq(t, 1, Len(s)) = s
Errors(logs) == SelectSeq(logs, LAMBDA log : log.level = "Error")
Warnings(logs) == SelectSeq(logs, LAMBDA log : log.level = "Warning")

\* C5: accept-state uniqueness.  No config line changes an accept_codegen that
\* is set; a pattern repeating the shape of an earlier pattern of its mnemonic
\* logs the conflicting-pattern error last, logs no other error, and leaves
\* the states of the instruction as they were.
C5_AcceptCodegenSetOnce ==
    [][/\ \A n \in DOMAIN map : \A s \in 1..Len(map[n].states) :
             map[n].states[s].accept_codegen.some =>
                /\ n \in DOMAIN map'
                /\ s <= Len(map'[n].states)
                /\ map'[n].states[s].accept_codegen = map[n].states[s].accept_codegen
       /\ (config' # config /\ RepeatsShape(config'[Len(config')])) =>
             /\ cfg_logger'.logs[Len(cfg_logger'.logs)] =
                   Log("Error", Len(config), "conflicting patterns for instruction")
             /\ Len(Errors(cfg_logger'.logs)) = Len(Errors(cfg_logger.logs)) + 1
             /\ map'[Mnemonic(config'[Len(config')])].states =
                   map[Mnemonic(config'[Len(config')])].states]_vars

C5_Witness ==
    /\ config = <<Cfg_add_r0_r1, Cfg_add_r0_r1_again>>
    /\ map["add"].states[4].accept_codegen =
          Some(<<CodegenByte(1), CodegenRegister(0), CodegenRegister(1)>>)
    /\ ErrorAt(cfg_logger.logs, 1)

\* C6: assemble returns Some(bytes), the output, if and only if its logger
\* holds no error; warnings do not count, and every log is returned.
C6_SomeIffNoError ==
    pc = "done" =>
       /\ result.result.some <=> Errors(logger.logs) = <<>>
       /\ result.result.some => result.result.val = output
       /\ result.logs = logger.logs

C6_Witness ==
    /\ pc = "done"
    /\ result.result.some
    /\ Warnings(result.logs) # <<>>
    /\ result.result.val # <<>>

\* C7: create_assembler_from_config returns Some(Assembler), holding the map,
\* if and only if its logger holds no error; warnings do not count, and every
\* log is returned.
C7_SomeIffNoError ==
    pc # "config" =>
       /\ assembler.result.some <=> Errors(cfg_logger.logs) = <<>>
       /\ assembler.result.some => assembler.result.val.instructions = map
       /\ assembler.logs = cfg_logger.logs

C7_Witness ==
    /\ pc = "line"
    /\ assembler.result.some
    /\ \E k \in 1..Len(assembler.logs) :
          assembler.logs[k].message = "registers are parsed in the order they appear regardless of number"
    /\ \E k \in 1..Len(assembler.logs) :
          assembler.logs[k].message = "is larger than 8 bits and will be truncated"

\* C8: a source line that logs an error emits nothing.  No byte of the output
\* comes from a line with an error; the output only grows, and only while the
\* codegen of a line matched to an accepting state is evaluated; a step that
\* logs an error leaves the output alone.
C8_ErrorLineEmitsNothing ==
    /\ [](\A k \in 1..Len(logger.logs) :
             logger.logs[k].level = "Error" =>
                \A j \in 1..Len(output_line) : output_line[j] # logger.logs[k].origin)
    /\ [][/\ IsPrefix(output, output')
          /\ output' # output =>
                /\ pc = "codegen"
                /\ LexerAtEnd(lexer)
                /\ instruction.states[current_state + 1].accept_codegen.some
          /\ Errors(logger'.logs) # Errors(logger.logs) => output' = output]_vars

C8_Witness ==
    /\ pc = "line"
    /\ line = 2
    /\ output # <<>>
    /\ ErrorAt(logger.logs, 1)
    /\ lexer.toks = Src_Add_r16_r1

\* C9: source lines are processed one at a time in source order, an error
\* never ends the loop, and the output is in line order.  The line counter
\* moves by one, and only between lines; a step that logs an error returns to
\* the head of the loop, where the next line can be read; the lines the bytes
\* of the output come from never decrease.
C9_LinesInOrder ==
    /\ [](\A j, k \in 1..Len(output_line) : j < k => output_line[j] <= output_line[k])
    /\ []((pc = "line" /\ line < MaxSourceLines) =>
             ENABLED (\E source \in SourceLines(config) : LineStart(source)))
    /\ [][/\ line' # line => (pc = "line" /\ line' = line + 1)
          /\ Errors(logger'.logs) # Errors(logger.logs) => pc' = "line"
          /\ Len(output_line') = Len(output')]_vars

C9_Witness ==
    /\ pc = "line"
    /\ line = 2
    /\ ErrorAt(logger.logs, 0)
    /\ output_line = <<1, 1, 1>>

\* The byte-level Immediate(imm, b) step the codegen loop is at, if it is.
AtImmediateStep ==
    /\ pc = "codegen"
    /\ data_pos < Len(codegen)
    /\ codegen[data_pos + 1].kind = "Data"
    /\ codegen[data_pos + 1].data.tag = "Immediate"
    /\ codegen[data_pos + 1].data.b % 8 = 0
    /\ codegen[data_pos + 1].data.imm < Len(captured_immediates)

\* C10: a byte-level Immediate(i, width) step, width a multiple of 8, appends
\* exactly width/8 bytes, byte k being bits 8k..8k+7 of the captured value.
C10_ImmediateLittleEndian ==
    [][AtImmediateStep =>
          LET width == codegen[data_pos + 1].data.b
              value == captured_immediates[codegen[data_pos + 1].data.imm + 1]
          IN /\ Len(output') = Len(output) + width \div 8
             /\ IsPrefix(output, output')
             /\ \A k \in 0..(width \div 8 - 1) :
                   output'[Len(output) + k + 1] = (value \div (256 ^ k)) % 256]_vars

\* C11: a byte-level Immediate(i, width) step that completes logs a truncation
\* warning exactly when the captured value has more than width significant
\* bits; a value of at most width bits logs nothing, and the step never logs
\* an error.
C11_TruncationWarning ==
    [][(AtImmediateStep /\ data_pos' = data_pos + 1) =>
          LET width == codegen[data_pos + 1].data.b
              value == captured_immediates[codegen[data_pos + 1].data.imm + 1]
          IN /\ Errors(logger'.logs) = Errors(logger.logs)
             /\ IF BitLen(value) > width
                THEN logger'.logs = Append(logger.logs,
                                           Log("Warning", line - 1, "will be truncated"))
                ELSE logger'.logs = logger.logs]_vars

\* The codegen loop is at a step that is not a byte-level immediate: a
\* literal, a register, or a bracket group.
AtByteStep ==
    /\ pc = "codegen"
    /\ data_pos < Len(codegen)
    /\ ~(codegen[data_pos + 1].kind = "Data" /\ codegen[data_pos + 1].data.tag = "Immediate")

\* What an atom of the template stands for on the current line: the literal,
\* the numeral of the line's register operand, the low byte of its immediate
\* operand.
AtomResolves(atom) ==
    CASE atom.tag = "Byte" -> TRUE
      [] atom.tag = "Register" -> atom.r < Len(RegisterOperands(lexer.toks))
      [] atom.tag = "Immediate" -> atom.imm < Len(ImmediateOperands(lexer.toks))
AtomByte(atom) ==
    CASE atom.tag = "Byte" -> atom.b
      [] atom.tag = "Register" -> RegisterOperands(lexer.toks)[atom.r + 1]
      [] atom.tag = "Immediate" -> ImmediateOperands(lexer.toks)[atom.imm + 1] % 256

\* C12: each literal, register and bracket-group step of the template of a
\* matched line appends exactly one byte, in template order: the literal, the
\* numeral of the captured register, or ((u & 0xF) << 4) | (l & 0xF) of the
\* two atoms of the group.
C12_OneBytePerStep ==
    [][AtByteStep =>
          LET data == codegen[data_pos + 1]
          IN /\ data_pos' = data_pos + 1
             /\ IF data.kind = "Data"
                THEN /\ AtomResolves(data.data)
                     /\ output' = Append(output, AtomByte(data.data))
                ELSE /\ AtomResolves(data.upper) /\ AtomResolves(data.lower)
                     /\ output' = Append(output, (AtomByte(data.upper) % 16) * 16
                                                   + (AtomByte(data.lower) % 16))]_vars

\* ------------------------------------- the two functions, applied to a text
\* create_assembler_from_config as a function of the config text: the loop
\* over its lines, run from a new map and a new logger.
CompileNext(done, line_number, source) ==
    CompileLine(done.map, done.logger, line_number, source)
RECURSIVE CompileLines(_, _)
CompileLines(config_text, n) ==
    IF n = 0 THEN [map |-> <<>>, logger |-> LoggerNew(NoOrigin)]
    ELSE CompileNext(CompileLines(config_text, n - 1), n - 1, config_text[n])
CompileResult(done) == into_result(done.logger, [instructions |-> done.map])
create_assembler_from_config(config_text) ==
    CompileResult(CompileLines(config_text, Len(config_text)))

\* Assembler::assemble as a function of the instructions and the source text.
\* w is the walk of one line: the lexer, the state, the capture buffers, the
\* logger, and how the walk ended ("walk" while it goes on).
WalkAbandon(w, message) ==
    [w EXCEPT !.logger = log_error(log_error(@, message), "syntaxes available for"),
              !.status = "abandoned"]
WalkToken(ins, w, token) ==
    CASE token.t = "Integer" ->
            IF ins.states[w.current_state + 1].immediate.tag = "NextState"
            THEN [w EXCEPT !.captured_immediates = Append(@, token.v),
                           !.current_state = ins.states[w.current_state + 1].immediate.next]
            ELSE WalkAbandon(w, "unexpected immediate")
      [] token.t = "Register" ->
            IF ins.states[w.current_state + 1].register.tag = "NextState"
            THEN IF token.v > 15
                 THEN [w EXCEPT !.logger = log_error(@, "register out of bounds"),
                                !.status = "abandoned"]
                 ELSE [w EXCEPT !.captured_registers = Append(@, token.v % 256),
                                !.current_state = ins.states[w.current_state + 1].register.next]
            ELSE WalkAbandon(w, "unexpected register")
      [] token.t = "Comma" ->
            IF ins.states[w.current_state + 1].comma.tag = "NextState"
            THEN [w EXCEPT !.current_state = ins.states[w.current_state + 1].comma.next]
            ELSE WalkAbandon(w, "unexpected comma")
      [] OTHER -> WalkAbandon(w, "unexpected token")
RECURSIVE Walk(_, _)
Walk(ins, w) ==
    IF w.status # "walk" THEN w
    ELSE IF LexerAtEnd(w.lexer)
    THEN IF ins.states[w.current_state + 1].accept_codegen.some
         THEN [w EXCEPT !.status = "accepted"]
         ELSE WalkAbandon(w, "syntax error")
    ELSE Walk(ins, WalkToken(ins, [w EXCEPT !.lexer = LexerAdvance(@)], LexerPeek(w.lexer)))

\* One iteration of `for data in codegen`, on the walk that was accepted.
CodegenIteration(w, data) ==
    CASE data.kind = "Data" /\ data.data.tag = "Immediate" ->
            IF \/ data.data.imm >= Len(w.captured_immediates)
               \/ 64 - data.data.b < 0
               \/ data.data.b \div 8 > 8
            THEN [w EXCEPT !.status = "panic"]
            ELSE [w EXCEPT !.logger = IF leading_zeros(w.captured_immediates[data.data.imm + 1])
                                          < 64 - data.data.b + 1
                                       THEN log_warning(@, "will be truncated")
                                       ELSE @,
                           !.output = @ \o SubSeq(to_le_bytes(w.captured_immediates[data.data.imm + 1]),
                                                  1, data.data.b \div 8)]
      [] data.kind = "Data" /\ data.data.tag # "Immediate" ->
            IF DecodePanics(data.data, w.captured_registers, w.captured_immediates)
            THEN [w EXCEPT !.status = "panic"]
            ELSE [w EXCEPT !.output = Append(@, decode(data.data, w.captured_registers,
                                                       w.captured_immediates))]
      [] OTHER ->
            IF \/ DecodePanics(data.upper, w.captured_registers, w.captured_immediates)
               \/ DecodePanics(data.lower, w.captured_registers, w.captured_immediates)
            THEN [w EXCEPT !.status = "panic"]
            ELSE [w EXCEPT !.output = Append(@,
                     (decode(data.upper, w.captured_registers, w.captured_immediates) % 16) * 16
                     + (decode(data.lower, w.captured_registers, w.captured_immediates) % 16))]
RECURSIVE CodegenLoop(_, _, _)
CodegenLoop(template, k, w) ==
    IF w.status # "accepted" \/ k = Len(template) THEN w
    ELSE CodegenLoop(template, k + 1, CodegenIteration(w, template[k + 1]))
WalkCodegen(ins, w) ==
    IF w.status # "accepted" THEN w
    ELSE CodegenLoop(ins.states[w.current_state + 1].accept_codegen.val, 0, w)

\* One iteration of the loop over the source lines.  a is what assemble
\* carries from line to line: captured_immediates, output, the logger, and
\* whether the process has panicked.
LineResult(w) ==
    [captured_immediates |-> w.captured_immediates, output |-> w.output,
     logger |-> w.logger, panicked |-> w.status = "panic"]
assemble_line(instrs, a, line_number, source) ==
    IF a.panicked THEN a
    ELSE IF source = <<>> THEN [a EXCEPT !.logger.origin = line_number]
    ELSE IF source[1].t # "Ident"
    THEN [a EXCEPT !.logger = log_error([@ EXCEPT !.origin = line_number], "unexpected token")]
    ELSE IF to_lowercase(source[1].s) \notin DOMAIN instrs
    THEN [a EXCEPT !.logger = log_error([@ EXCEPT !.origin = line_number], "unknown instruction")]
    ELSE LineResult(
            WalkCodegen(instrs[to_lowercase(source[1].s)],
                Walk(instrs[to_lowercase(source[1].s)],
                     [lexer |-> LexerAdvance(LexerNew(source)), current_state |-> 0,
                      captured_registers |-> <<>>,
                      captured_immediates |-> a.captured_immediates,
                      logger |-> [a.logger EXCEPT !.origin = line_number],
                      output |-> a.output, status |-> "walk"])))
RECURSIVE assemble_lines(_, _, _)
assemble_lines(instrs, source_text, n) ==
    IF n = 0
    THEN [captured_immediates |-> <<>>, output |-> <<>>, logger |-> LoggerNew(NoOrigin),
          panicked |-> FALSE]
    ELSE assemble_line(instrs, assemble_lines(instrs, source_text, n - 1), n - 1, source_text[n])
\* What assemble returns, unless it panicked.
AssembleReturn(a) == into_result(a.logger, a.output)
assemble(instrs, source_text) ==
    AssembleReturn(assemble_lines(instrs, source_text, Len(source_text)))

\* The run against a second compilation and a second assembly of the same
\* texts: twin is what create_assembler_from_config returns for the config
\* lines read, twin_lines what the second assembler carries after the source
\* lines read.
SameAssembler(twin) ==
    /\ assembler = twin
    /\ twin.result.some =>
          /\ DOMAIN twin.result.val.instructions = DOMAIN map
          /\ \A n \in DOMAIN map :
                /\ twin.result.val.instructions[n].states = map[n].states
                /\ twin.result.val.instructions[n].syntaxes = map[n].syntaxes
SameLines(twin_lines) ==
    /\ twin_lines.panicked <=> pc = "panic"
    /\ pc = "line" =>
          /\ twin_lines.output = output
          /\ twin_lines.logger.logs = logger.logs
          /\ twin_lines.captured_immediates = captured_immediates
    /\ pc = "done" =>
          /\ result = AssembleReturn(twin_lines)
          /\ result.logs = logger.logs
SameAssembly(twin) ==
    SameLines(assemble_lines(twin.result.val.instructions, text, Len(text)))

AtRegisterToken ==
    /\ pc = "walk"
    /\ ~LexerAtEnd(lexer)
    /\ LexerPeek(lexer).t = "Register"
    /\ instruction.states[current_state + 1].register.tag = "NextState"

\* C14: a register numeral above 15, met on a state that has a register
\* transition, logs "register out of bounds" and abandons the line without
\* capturing it; every value captured_registers holds is in 0..15.
C14_RegisterBound ==
    /\ [](\A k \in 1..Len(captured_registers) : captured_registers[k] \in 0..15)
    /\ [][(AtRegisterToken /\ LexerPeek(lexer).v > 15) =>
             /\ logger' = log_error(logger, "register out of bounds")
             /\ pc' = "line"
             /\ captured_registers' = captured_registers
             /\ output' = output]_vars

C14_Witness ==
    /\ pc = "line"
    /\ lexer.toks = Src_Add_r16_r1
    /\ logger.logs # <<>>
    /\ logger.logs[Len(logger.logs)] = Log("Error", line - 1, "register out of bounds")
    /\ captured_registers = <<>>

\* The operand tokens the pattern loop walks on a config line, by category,
\* read off the tokens after the mnemonic: a register, a comma, an immediate
\* with its ':' and width.  The walk ends at '->' and at a ':' without a
\* width; an immediate without ':' takes the token after it along.
RECURSIVE WalkedShape(_)
WalkedShape(tokens) ==
    IF tokens = <<>> THEN <<>>
    ELSE CASE Head(tokens).t = "Register" -> <<"register">> \o WalkedShape(Tail(tokens))
           [] Head(tokens).t = "Comma" -> <<"comma">> \o WalkedShape(Tail(tokens))
           [] Head(tokens).t = "Arrow" -> <<>>
           [] Head(tokens).t = "Immediate" ->
                IF Len(tokens) >= 2 /\ tokens[2].t = "Colon"
                THEN IF Len(tokens) >= 3 /\ tokens[3].t = "Integer"
                     THEN <<"immediate">> \o WalkedShape(SubSeq(tokens, 4, Len(tokens)))
                     ELSE <<>>
                ELSE WalkedShape(SubSeq(tokens, 3, Len(tokens)))
           [] OTHER -> WalkedShape(Tail(tokens))
\* Whether that walk comes to a '->'.
RECURSIVE WalkedToArrow(_)
WalkedToArrow(tokens) ==
    IF tokens = <<>> THEN FALSE
    ELSE CASE Head(tokens).t = "Arrow" -> TRUE
           [] Head(tokens).t = "Immediate" ->
                IF Len(tokens) >= 2 /\ tokens[2].t = "Colon"
                THEN /\ Len(tokens) >= 3 /\ tokens[3].t = "Integer"
                     /\ WalkedToArrow(SubSeq(tokens, 4, Len(tokens)))
                ELSE WalkedToArrow(SubSeq(tokens, 3, Len(tokens)))
           [] OTHER -> WalkedToArrow(Tail(tokens))

\* The pattern lines of a mnemonic among the first n config lines, and the
\* non-empty prefixes of the shapes walked on them.
PatternLines(mnemonic, n) ==
    {k \in 1..n : IsPattern(config[k]) /\ Mnemonic(config[k]) = mnemonic}
Prefixes(shape) == {SubSeq(shape, 1, k) : k \in 1..Len(shape)}
WalkedPrefixes(mnemonic, n) ==
    UNION {Prefixes(WalkedShape(Tail(config[k]))) : k \in PatternLines(mnemonic, n)}

\* The state a shape leads to from state s, -1 when a transition is Reject.
TransitionBy(table, category) ==
    CASE category = "register" -> table.register
      [] category = "immediate" -> table.immediate
      [] category = "comma" -> table.comma
RECURSIVE Reach(_, _, _)
Reach(states, s, shape) ==
    IF shape = <<>> THEN s
    ELSE IF TransitionBy(states[s + 1], Head(shape)).tag = "Reject" THEN -1
    ELSE Reach(states, TransitionBy(states[s + 1], Head(shape)).next, Tail(shape))

\* C15: prefix sharing.  In the DFA of every mnemonic, each shape prefix
\* walked so far leads from state 0 to one state, the same for every pattern
\* that starts with the prefix, and distinct prefixes lead to distinct states;
\* the number of states is 1 plus the number of distinct non-empty prefixes
\* walked; a pattern that came to '->' accepts in the state its shape leads
\* to; a config line adds one state per prefix not walked before and leaves
\* the transitions built before as they are.
C15_PrefixSharing ==
    /\ [](\A n \in DOMAIN map :
             /\ Len(map[n].states) = 1 + Cardinality(WalkedPrefixes(n, Len(config)))
             /\ \A p \in WalkedPrefixes(n, Len(config)) :
                   Reach(map[n].states, 0, p) \in 1..(Len(map[n].states) - 1)
             /\ \A p, q \in WalkedPrefixes(n, Len(config)) :
                   Reach(map[n].states, 0, p) = Reach(map[n].states, 0, q) => p = q
             /\ \A k \in PatternLines(n, Len(config)) :
                   WalkedToArrow(Tail(config[k])) =>
                      map[n].states[Reach(map[n].states, 0, WalkedShape(Tail(config[k]))) + 1]
                         .accept_codegen.some)
    /\ [][\A n \in DOMAIN map :
             /\ n \in DOMAIN map'
             /\ Len(map'[n].states) - Len(map[n].states) =
                   Cardinality(WalkedPrefixes(n, Len(config))' \ WalkedPrefixes(n, Len(config)))
             /\ \A s \in 1..Len(map[n].states) :
                   \A category \in {"register", "immediate", "comma"} :
                      TransitionBy(map[n].states[s], category).tag = "NextState" =>
                         TransitionBy(map'[n].states[s], category) =
                            TransitionBy(map[n].states[s], category)]_vars

C15_Witness ==
    /\ config = <<Cfg_add_r0_r1, Cfg_ADD_r0>>
    /\ Len(map["add"].states) = 4
    /\ map["add"].states[2].accept_codegen.some
    /\ map["add"].states[4].accept_codegen.some

\* The transitions of one category on the path from state 0 to state s: each
\* state but 0 is entered by one transition, from the state built before it.
EnteredBy(states, s, p, category) ==
    TransitionBy(states[p + 1], category) = NextState(s)
ParentOf(states, s) ==
    CHOOSE p \in 0..(s - 1) :
        \E category \in {"register", "immediate", "comma"} : EnteredBy(states, s, p, category)
RECURSIVE OnPath(_, _, _)
OnPath(states, s, category) ==
    IF s = 0 THEN 0
    ELSE (IF EnteredBy(states, s, ParentOf(states, s), category) THEN 1 ELSE 0)
         + OnPath(states, ParentOf(states, s), category)

\* The atoms of a template: the datum of a byte-level step, the two of a
\* bracket group.
AtomsOf(template) ==
    UNION {IF template[k].kind = "Data" THEN {template[k].data}
           ELSE {template[k].upper, template[k].lower} : k \in 1..Len(template)}

\* C16: in an Assembler returned as Some, the template of an accepting state
\* s references declared operands only: a Register(r) atom has r below the
\* number of register transitions on the path from state 0 to s, an
\* Immediate(i, _) atom has i below the number of immediate transitions.
C16_TemplatesReferenceDeclared ==
    (pc # "config" /\ assembler.result.some) =>
       \A n \in DOMAIN instructions : \A s \in 1..Len(instructions[n].states) :
          instructions[n].states[s].accept_codegen.some =>
             \A atom \in AtomsOf(instructions[n].states[s].accept_codegen.val) :
                /\ atom.tag = "Register" =>
                      atom.r < OnPath(instructions[n].states, s - 1, "register")
                /\ atom.tag = "Immediate" =>
                      atom.imm < OnPath(instructions[n].states, s - 1, "immediate")

\* The widths a well-formed pattern declares, in the order of its immediates.
DeclaredWidths(source) ==
    LET widths == SelectSeq(Tail(SplitOnceArrow(source)), LAMBDA t : t.t = "Integer")
    IN [k \in 1..Len(widths) |-> widths[k].v]
\* The template tokens before position j are byte-level steps the codegen
\* loop passes: literals, registers, declared immediates.
PlainBefore(source, j) ==
    \A i \in 1..(j - 1) :
       \/ Template(source)[i].t \in {"Integer", "Register"}
       \/ /\ Template(source)[i].t = "Immediate"
          /\ Template(source)[i].v < Len(DeclaredWidths(source))
\* A well-formed pattern whose template refers, as a byte-level step, to a
\* declared immediate whose width is no multiple of 8.
UnalignedReference(source) ==
    /\ ShapeOk(source)
    /\ \E j \in 1..Len(Template(source)) :
          /\ PlainBefore(source, j)
          /\ Template(source)[j].t = "Immediate"
          /\ Template(source)[j].v < Len(DeclaredWidths(source))
          /\ DeclaredWidths(source)[Template(source)[j].v + 1] % 8 # 0
\* A well-formed pattern whose template refers, as the upper atom of a
\* bracket group, to a declared immediate whose width is not 4.
WideNibbleReference(source) ==
    /\ ShapeOk(source)
    /\ \E j \in 1..(Len(Template(source)) - 1) :
          /\ PlainBefore(source, j)
          /\ Template(source)[j].t = "OpenBracket"
          /\ Template(source)[j + 1].t = "Immediate"
          /\ Template(source)[j + 1].v < Len(DeclaredWidths(source))
          /\ DeclaredWidths(source)[Template(source)[j + 1].v + 1] # 4

LoggedAt(logs, origin, message) ==
    \E k \in 1..Len(logs) : logs[k] = Log("Error", origin, message)

\* C17: width discipline.  In every instruction table, an Immediate atom of
\* a byte-level step has a width that is a multiple of 8 and an Immediate
\* atom of a bracket group has width 4; a config line with a reference that
\* breaks either rule logs an error, the rule's own unless the pattern
\* conflicts with an earlier one.
C17_WidthDiscipline ==
    /\ [](\A n \in DOMAIN map : \A s \in 1..Len(map[n].states) :
             map[n].states[s].accept_codegen.some =>
                \A k \in 1..Len(map[n].states[s].accept_codegen.val) :
                   LET step == map[n].states[s].accept_codegen.val[k]
                   IN /\ (step.kind = "Data" /\ step.data.tag = "Immediate") =>
                            step.data.b % 8 = 0
                      /\ (step.kind = "UpperLower" /\ step.upper.tag = "Immediate") =>
                            step.upper.b = 4
                      /\ (step.kind = "UpperLower" /\ step.lower.tag = "Immediate") =>
                            step.lower.b = 4)
    /\ [][config' # config =>
             LET source == config'[Len(config')]
             IN /\ UnalignedReference(source) =>
                      /\ ErrorAt(cfg_logger'.logs, Len(config))
                      /\ ~RepeatsShape(source) =>
                            LoggedAt(cfg_logger'.logs, Len(config),
                                     "immediate width must be byte aligned (for now)")
                /\ WideNibbleReference(source) =>
                      /\ ErrorAt(cfg_logger'.logs, Len(config))
                      /\ ~RepeatsShape(source) =>
                            LoggedAt(cfg_logger'.logs, Len(config),
                                     "width of immediate in bracket group must be 4 (for now)")]_vars

C17_Witness ==
    /\ config = <<Cfg_ldi_i0_12, Cfg_ldw_i1_i0>>
    /\ map["ldi"].states[2].accept_codegen = Some(<<>>)
    /\ LoggedAt(cfg_logger.logs, 0, "immediate width must be byte aligned (for now)")
    /\ map["ldw"].states[4].accept_codegen =
          Some(<<CodegenImmediate(1, 16), CodegenImmediate(0, 8)>>)

\* A pattern line whose operand shape has, after registers and commas only, a
\* token that is no register, immediate, comma or '->'.
UnexpectedInShape(source) ==
    /\ IsPattern(source)
    /\ \E j \in 2..Len(source) :
          /\ \A i \in 2..(j - 1) : source[i].t \in {"Register", "Comma"}
          /\ source[j].t \notin {"Register", "Comma", "Immediate", "Arrow"}

\* The instruction of a mnemonic before a config line is read, and the
\* accepting states of an instruction.
InstructionBefore(mnemonic) ==
    IF mnemonic \in DOMAIN map THEN map[mnemonic] ELSE InstructionNew
AcceptingStates(ins) ==
    {s \in 1..Len(ins.states) : ins.states[s].accept_codegen.some}

\* C18: an unexpected token in the operand shape of a pattern is fatal for
\* the pattern: the error is logged, no state becomes accepting and no syntax
\* is appended for the line, and the compilation goes on to the next line.
C18_UnexpectedTokenFatal ==
    [][(config' # config /\ UnexpectedInShape(config'[Len(config')])) =>
          LET mnemonic == Mnemonic(config'[Len(config')])
          IN /\ LoggedAt(cfg_logger'.logs, Len(config), "unexpected token in instrution pattern")
             /\ AcceptingStates(map'[mnemonic]) = AcceptingStates(InstructionBefore(mnemonic))
             /\ map'[mnemonic].syntaxes = InstructionBefore(mnemonic).syntaxes
             /\ pc' = "config"]_vars

\* A pattern line without any '->'.
NoArrow(source) ==
    /\ IsPattern(source)
    /\ \A j \in 1..Len(source) : source[j].t # "Arrow"

\* C19: a config line in which '->' is never found logs the "expected '->'"
\* error and records nothing else: the mnemonic map, with the states and the
\* syntaxes of every instruction, is what it was before the line.
C19_NoArrowRecordsNothing ==
    [][(config' # config /\ NoArrow(config'[Len(config')])) =>
          /\ LoggedAt(cfg_logger'.logs, Len(config),
                      "expected '->' following an instruction pattern")
          /\ map' = map]_vars

\* C20: a syntax is appended to the syntaxes of a mnemonic only for a pattern
\* line that was accepted, one that attached its template to a state: a
\* config line that appends a syntax turns a state accepting, a line ending
\* in the conflicting-pattern error appends none, and every instruction has
\* as many syntaxes as accepting states.
C20_SyntaxOnlyIfAccepted ==
    /\ [](\A n \in DOMAIN map :
             Len(map[n].syntaxes) = Cardinality(AcceptingStates(map[n])))
    /\ [][config' # config =>
             \A n \in DOMAIN map' :
                map'[n].syntaxes # InstructionBefore(n).syntaxes =>
                   /\ AcceptingStates(map'[n]) # AcceptingStates(InstructionBefore(n))
                   /\ ~LoggedAt(cfg_logger'.logs, Len(config),
                                "conflicting patterns for instruction")]_vars

\* The operand tokens of one kind in the shape of a pattern line whose
\* numeral differs from the count of operands of that kind before it.
Misnumbered(source, kind) ==
    LET operands == SelectSeq(Tail(SplitOnceArrow(source)), LAMBDA t : t.t = kind)
    IN {k \in 1..Len(operands) : operands[k].v # k - 1}
\* The logs of one level and message at an origin.
LogsAt(logs, level, origin, message) ==
    {k \in 1..Len(logs) : logs[k] = Log(level, origin, message)}

\* C21: numbering warnings are positional for both operand kinds.  A
\* well-formed pattern line logs one warning for each register token, and one
\* for each immediate token, whose numeral differs from the count of operands
\* of its kind declared before it in the pattern, larger or smaller; it logs
\* no error for this reason.
C21_NumberingWarnings ==
    [][(config' # config /\ ShapeOk(config'[Len(config')])) =>
          /\ Cardinality(LogsAt(cfg_logger'.logs, "Warning", Len(config),
                "registers are parsed in the order they appear regardless of number"))
                = Cardinality(Misnumbered(config'[Len(config')], "Register"))
          /\ Cardinality(LogsAt(cfg_logger'.logs, "Warning", Len(config),
                "immediates are parsed in the order they appear regardless of number"))
                = Cardinality(Misnumbered(config'[Len(config')], "Immediate"))
          /\ LogsAt(cfg_logger'.logs, "Error", Len(config),
                "registers are parsed in the order they appear regardless of number") = {}
          /\ LogsAt(cfg_logger'.logs, "Error", Len(config),
                "immediates are parsed in the order they appear regardless of number") = {}]_vars

\* ------------------------------------------------- log.rs: LoggedResult<T>
MaxLogs == 3

\* LoggedResult::new and the operations of a LoggedResult, self |-> self'.
LoggedResultNew == [result |-> None, logs |-> <<>>]
LoggedResultLogWarning(self, message) ==
    [self EXCEPT !.logs = Append(@, Log("Warning", NoOrigin, message))]
LoggedResultLogError(self, message) ==
    [self EXCEPT !.result = None, !.logs = Append(@, Log("Error", NoOrigin, message))]
push_log(self, log) ==
    [self EXCEPT !.result = IF LogIsError(log) THEN None ELSE @, !.logs = Append(@, log)]
LoggedResultMapOrigin(self, origin) ==
    [self EXCEPT !.logs = map_origin(@, origin)]
\* take_log_and, for the result that receives the logs of self; the callback
\* is given the value of self and cannot reach the receiving result.
take_log_and(self, receiving) ==
    [receiving EXCEPT !.logs = @ \o self.logs]
return_value(self, callback) ==
    IF ~is_error(self.logs) THEN [self EXCEPT !.result = Some(callback)] ELSE self
value(self) == self.result

\* The logs, the origins and the values the operations are applied with.
LogMessages == {"first", "second"}
LogOrigins == {0, 1}
LogValues == {1, 2}
Logs == {Log(level, origin, message) :
            level \in {"Warning", "Error"}, origin \in LogOrigins \cup {NoOrigin},
            message \in LogMessages}
\* The results take_log_and takes the logs of: new ones, or with one log.
TakenResults ==
    {LoggedResultNew, return_value(LoggedResultNew, 1)}
    \cup {push_log(LoggedResultNew, log) : log \in Logs}
    \cup {return_value(LoggedResultLogWarning(LoggedResultNew, "first"), 2)}

Operation(op, origin) == [op |-> op, origin |-> origin, before |-> logged]

LogWarning(message) ==
    /\ Len(logged.logs) < MaxLogs
    /\ logged' = LoggedResultLogWarning(logged, message)
    /\ last' = Operation("log_warning", NoOrigin)
    /\ UNCHANGED <<pc, cfg_vars, asm_vars>>
LogError(message) ==
    /\ Len(logged.logs) < MaxLogs
    /\ logged' = LoggedResultLogError(logged, message)
    /\ last' = Operation("log_error", NoOrigin)
    /\ UNCHANGED <<pc, cfg_vars, asm_vars>>
PushLog(log) ==
    /\ Len(logged.logs) < MaxLogs
    /\ logged' = push_log(logged, log)
    /\ last' = Operation("push_log", NoOrigin)
    /\ UNCHANGED <<pc, cfg_vars, asm_vars>>
MapOrigin(origin) ==
    /\ logged' = LoggedResultMapOrigin(logged, origin)
    /\ last' = Operation("map_origin", origin)
    /\ UNCHANGED <<pc, cfg_vars, asm_vars>>
TakeLogAnd(taken) ==
    /\ Len(logged.logs) + Len(taken.logs) <= MaxLogs
    /\ logged' = take_log_and(taken, logged)
    /\ last' = Operation("take_log_and", NoOrigin)
    /\ UNCHANGED <<pc, cfg_vars, asm_vars>>
ReturnValue(callback) ==
    /\ logged' = return_value(logged, callback)
    /\ last' = Operation("return_value", NoOrigin)
    /\ UNCHANGED <<pc, cfg_vars, asm_vars>>

NextLog ==
    \/ \E message \in LogMessages : LogWarning(message)
    \/ \E message \in LogMessages : LogError(message)
    \/ \E log \in Logs : PushLog(log)
    \/ \E origin \in LogOrigins : MapOrigin(origin)
    \/ \E taken \in TakenResults : TakeLogAnd(taken)
    \/ \E callback \in LogValues : ReturnValue(callback)

SpecLog == Init /\ [][NextLog]_vars

\* C22: any error means failure.  After any sequence of log_warning,
\* log_error, push_log, return_value and take_log_and (on the receiving
\* result), value() is Some only if the logs hold no error, and the logs
\* recorded before an operation are a prefix of the logs after it.
C22_AnyErrorMeansFailure ==
    /\ value(logged).some => ~is_error(logged.logs)
    /\ last.op \in {"log_warning", "log_error", "push_log", "return_value", "take_log_and"} =>
          IsPrefix(last.before.logs, logged.logs)

\* C23: origin back-fill.  map_origin(origin) gives the origin to exactly
\* the logs that had none; it leaves every log that had an origin, every
\* message and level, the number and the order of the logs, and the value
\* held, as they were.
C23_MapOriginBackFills ==
    last.op = "map_origin" =>
       /\ Len(logged.logs) = Len(last.before.logs)
       /\ \A k \in 1..Len(last.before.logs) :
             /\ logged.logs[k].level = last.before.logs[k].level
             /\ logged.logs[k].message = last.before.logs[k].message
             /\ logged.logs[k].origin =
                   IF last.before.logs[k].origin = NoOrigin THEN last.origin
                   ELSE last.before.logs[k].origin
       /\ logged.result = last.before.result

C23_Witness ==
    /\ last.op = "map_origin"
    /\ \E k \in 1..Len(last.before.logs) : last.before.logs[k].origin = NoOrigin
    /\ \E k \in 1..Len(last.before.logs) :
          last.before.logs[k].origin \notin {NoOrigin, last.origin}
    /\ logged.result.some

\* The transitions of an arena that lead to state n: pairs of the state they
\* leave (0-based) and their category.
TransitionsTo(states, n) ==
    {e \in (0..(Len(states) - 1)) \X {"register", "immediate", "comma"} :
        TransitionBy(states[e[1] + 1], e[2]) = NextState(n)}

\* C24: the state arena of every instruction, after any config lines.  It is
\* non-empty; a NextState(n) stored in state s has s < n < states.len();
\* no transition leads to state 0 and exactly one leads to every other state.
\* The walk of assemble therefore stays within the arena, and each of its
\* steps takes one token of the line, so it ends.
C24_StateArena ==
    /\ [](\A m \in DOMAIN map :
             /\ Len(map[m].states) >= 1
             /\ \A s \in 0..(Len(map[m].states) - 1) :
                   \A category \in {"register", "immediate", "comma"} :
                      TransitionBy(map[m].states[s + 1], category).tag = "NextState" =>
                         /\ s < TransitionBy(map[m].states[s + 1], category).next
                         /\ TransitionBy(map[m].states[s + 1], category).next < Len(map[m].states)
             /\ TransitionsTo(map[m].states, 0) = {}
             /\ \A n \in 1..(Len(map[m].states) - 1) :
                   Cardinality(TransitionsTo(map[m].states, n)) = 1)
    /\ [](pc \in {"walk", "codegen"} => current_state < Len(instruction.states))
    /\ [][pc = "walk" =>
             \/ pc' # "walk"
             \/ /\ lexer'.pos = lexer.pos + 1
                /\ lexer'.pos <= Len(lexer.toks) + 1
                /\ lexer'.toks = lexer.toks]_vars

C24_Witness ==
    /\ config = <<Cfg_add_no_arrow, Cfg_add_r0_r1>>
    /\ ErrorAt(cfg_logger.logs, 0)
    /\ Len(map["add"].states) = 4
    /\ map["add"].states[4].accept_codegen.some

====
